---- MODULE Spec2Model ----
(***************************************************************************)
(* A model of vk_image_exporter.py: extraction of (url, date) links from   *)
(* the selected HTML documents, the coordinator (main) that numbers the    *)
(* links and submits one download_image task per link to a pool of four    *)
(* worker threads, and download_image itself with the helpers it uses      *)
(* (convert_date_format, sanitize_date, set_exif_date).                    *)
(*                                                                         *)
(* Text is a sequence of characters, each character a one-element string.  *)
(* The module is ASCII only, so a Cyrillic letter is written "#" followed  *)
(* by its transliteration ("#v" is the letter ve, "#ya" the letter ya) and *)
(* an upper-case Cyrillic letter has its transliteration in upper case.    *)
(***************************************************************************)
EXTENDS Integers, Sequences, FiniteSets, TLC

VARIABLES
    docs,       \* html_files: the selected documents, in iterdir() order
    pre,        \* the paths present in dest_dir when the run starts
    main_pc,    \* position of main(): "extract", "submit", "join", "done"
    doc_i,      \* number of documents main's extraction loop has handled
    all_links,  \* main's all_links
    tasks,      \* the futures submitted so far, with each task's locals
    disk,       \* dest_dir: path -> content
    log,        \* errors.log: the entries appended during the run
    faults,     \* transient faults the environment may still inject
    status,     \* "running", or the exit status: "0", "1"
    banner,     \* whether the completion banner was printed
    arg,        \* unit level: the arguments of the function under test
    res         \* unit level: what it returned

vars == <<docs, pre, main_pc, doc_i, all_links, tasks, disk, log, faults,
          status, banner, arg, res>>

----------------------------------------------------------------------------
(* Text helpers: the str methods the program calls.                        *)

Whitespace == {" "}

RECURSIVE LStrip(_)
LStrip(s) ==
    IF s # <<>> /\ Head(s) \in Whitespace THEN LStrip(Tail(s)) ELSE s

RECURSIVE RStrip(_)
RStrip(s) ==
    IF s # <<>> /\ s[Len(s)] \in Whitespace
    THEN RStrip(SubSeq(s, 1, Len(s) - 1))
    ELSE s

\* str.strip()
Strip(s) == RStrip(LStrip(s))

StartsWith(s, p) == Len(s) >= Len(p) /\ SubSeq(s, 1, Len(p)) = p

\* str.split(sep) for a non-empty sep: the parts between the
\* non-overlapping occurrences of sep, found left to right.
RECURSIVE SplitFrom(_, _, _)
SplitFrom(s, sep, cur) ==
    IF s = <<>> THEN <<cur>>
    ELSE IF StartsWith(s, sep)
         THEN <<cur>> \o SplitFrom(SubSeq(s, Len(sep) + 1, Len(s)), sep, <<>>)
         ELSE SplitFrom(Tail(s), sep, Append(cur, Head(s)))

Split(s, sep) == SplitFrom(s, sep, <<>>)

\* str.split() with no argument: the maximal runs of non-whitespace.
RECURSIVE SplitWsFrom(_, _)
SplitWsFrom(s, cur) ==
    IF s = <<>> THEN (IF cur = <<>> THEN <<>> ELSE <<cur>>)
    ELSE IF Head(s) \in Whitespace
         THEN (IF cur = <<>> THEN <<>> ELSE <<cur>>) \o SplitWsFrom(Tail(s), <<>>)
         ELSE SplitWsFrom(Tail(s), Append(cur, Head(s)))

SplitWs(s) == SplitWsFrom(s, <<>>)

\* str.replace(old, new) for a one-character old; new is a text.
RECURSIVE Replace(_, _, _)
Replace(s, old, new) ==
    IF s = <<>> THEN <<>>
    ELSE (IF Head(s) = old THEN new ELSE <<Head(s)>>) \o Replace(Tail(s), old, new)

LowerChar(c) ==
    CASE c = "J" -> "j" [] c = "P" -> "p" [] c = "G" -> "g"
      [] c = "E" -> "e" [] c = "N" -> "n"
      [] c = "#M" -> "#m" [] c = "#A" -> "#a" [] c = "#YA" -> "#ya"
      [] c = "#J" -> "#j"
      [] OTHER -> c

\* str.lower()
Lower(s) == [i \in 1..Len(s) |-> LowerChar(s[i])]

RECURSIVE Zeros(_)
Zeros(n) == IF n <= 0 THEN <<>> ELSE <<"0">> \o Zeros(n - 1)

\* str.zfill(width): zeros on the left, after a leading sign.
ZFill(s, width) ==
    IF Len(s) >= width THEN s
    ELSE IF s # <<>> /\ Head(s) \in {"+", "-"}
         THEN <<Head(s)>> \o Zeros(width - Len(s)) \o Tail(s)
         ELSE Zeros(width - Len(s)) \o s

DigitChar(d) ==
    CASE d = 0 -> "0" [] d = 1 -> "1" [] d = 2 -> "2" [] d = 3 -> "3"
      [] d = 4 -> "4" [] d = 5 -> "5" [] d = 6 -> "6" [] d = 7 -> "7"
      [] d = 8 -> "8" [] d = 9 -> "9"

RECURSIVE Decimal(_)
Decimal(n) ==
    IF n < 10 THEN <<DigitChar(n)>>
    ELSE Append(Decimal(n \div 10), DigitChar(n % 10))

\* a rendering that keeps the last four digits only
Format04d_FourDigitsOnly(index) == ZFill(Decimal(index % 10000), 4)

\* f"{index:04d}" for a non-negative index
Format04d(index) == ZFill(Decimal(index), 4)

----------------------------------------------------------------------------
(* convert_date_format and sanitize_date                                   *)

Sentinel ==
    <<"2","0","0","0",":","0","1",":","0","1"," ","0","0",":","0","0",":","0","0">>

\* the separator ' v ' main's dates are split on (Cyrillic ve between spaces)
AtSep == <<" ", "#v", " ">>

\* the keys of the months dict
MonthKeys ==
    { <<"#ya","#n","#v">>, <<"#f","#e","#v">>, <<"#m","#a","#r">>,
      <<"#a","#p","#r">>,  <<"#m","#a","#j">>, <<"#m","#a","#ya">>,
      <<"#i","#yu","#n">>, <<"#i","#yu","#l">>, <<"#a","#v","#g">>,
      <<"#s","#e","#n">>,  <<"#o","#k","#t">>, <<"#n","#o","#ya">>,
      <<"#d","#e","#k">> }

\* months[key]
MonthNumber(key) ==
    CASE key = <<"#ya","#n","#v">>  -> <<"0","1">>
      [] key = <<"#f","#e","#v">>   -> <<"0","2">>
      [] key = <<"#m","#a","#r">>   -> <<"0","3">>
      [] key = <<"#a","#p","#r">>   -> <<"0","4">>
      [] key = <<"#m","#a","#j">>   -> <<"0","5">>
      [] key = <<"#m","#a","#ya">>  -> <<"0","5">>
      [] key = <<"#i","#yu","#n">>  -> <<"0","6">>
      [] key = <<"#i","#yu","#l">>  -> <<"0","7">>
      [] key = <<"#a","#v","#g">>   -> <<"0","8">>
      [] key = <<"#s","#e","#n">>   -> <<"0","9">>
      [] key = <<"#o","#k","#t">>   -> <<"1","0">>
      [] key = <<"#n","#o","#ya">>  -> <<"1","1">>
      [] key = <<"#d","#e","#k">>   -> <<"1","2">>

\* months.get(key): the number, or <<>> for None
MonthsGet(key) == IF key \in MonthKeys THEN MonthNumber(key) ELSE <<>>

\* convert_date_format(date_str): what it returns, and whether it logged
\* (the except branch, reached when the 3-name unpacking of line 68 fails).
convert_date_format(date_str) ==
    LET parts == Split(Strip(date_str), AtSep) IN
    IF Len(parts) # 2
    THEN [ret |-> Sentinel, logged |-> FALSE]
    ELSE LET date_part == parts[1]
             time_part == parts[2]
             words     == SplitWs(date_part)
         IN  IF Len(words) # 3
             THEN [ret |-> Sentinel, logged |-> TRUE]
             ELSE LET day   == words[1]
                      month == MonthsGet(Lower(words[2]))
                      year  == words[3]
                  IN  IF month = <<>>
                      THEN [ret |-> Sentinel, logged |-> FALSE]
                      ELSE [ret |-> year \o <<":">> \o month \o <<":">>
                                    \o ZFill(day, 2) \o <<" ">> \o time_part,
                            logged |-> FALSE]

\* sanitize_date(date_str)
sanitize_date(date_str) ==
    Strip(Replace(Replace(Replace(date_str, ":", <<"-">>), " ", <<"_">>),
                  "#v", <<>>))

----------------------------------------------------------------------------
(* Naming: the extension and the paths download_image computes             *)

RECURSIVE RFind(_, _)
\* str.rfind(c): the last position of c, 0 when there is none
RFind(s, c) ==
    IF s = <<>> THEN 0
    ELSE IF s[Len(s)] = c THEN Len(s)
         ELSE RFind(SubSeq(s, 1, Len(s) - 1), c)

\* os.path.splitext(p)[-1]: from the last dot of the last component on,
\* unless that component has only dots before it.
splitext(p) ==
    LET sepIndex == RFind(p, "/")
        dotIndex == RFind(p, ".")
    IN  IF dotIndex > sepIndex
           /\ \E i \in (sepIndex + 1)..(dotIndex - 1) : p[i] # "."
        THEN SubSeq(p, dotIndex, Len(p))
        ELSE <<>>

ExtJpg  == <<".", "j", "p", "g">>
ExtJpeg == <<".", "j", "p", "e", "g">>
ExtPng  == <<".", "p", "n", "g">>

\* lines 103-106; a url is [path, body]: urlparse(url).path and the
\* content the server holds for it.
Extension(url) ==
    LET extension == Lower(splitext(url.path)) IN
    IF extension \notin {ExtJpg, ExtJpeg, ExtPng} THEN ExtJpg ELSE extension

\* os.path.join(dest_dir, name) for a relative name
Join(dest_dir, name) == dest_dir \o <<"/">> \o name

DestDir == <<"D">>

\* line 108: the path whose existence is tested
CheckPath(index, url, dest_dir) ==
    Join(dest_dir, Format04d(index) \o Extension(url))

\* lines 118-123: the path the bytes are written to
FinalPath(index, url, date_str, dest_dir) ==
    IF Extension(url) \in {ExtJpg, ExtJpeg}
    THEN CheckPath(index, url, dest_dir)
    ELSE Join(dest_dir, Format04d(index) \o <<"_">> \o sanitize_date(date_str)
                        \o Extension(url))

----------------------------------------------------------------------------
(* set_exif_date: image bytes are [format, exif, of]: the format PIL       *)
(* decodes ("JPEG", "PNG"; "corrupt" cannot be opened, "truncated" opens   *)
(* as JPEG and fails in save), the date stamped into it (<<>> for none),   *)
(* and the url it was fetched from.                                        *)

NoData == [format |-> "none", exif |-> <<>>, of |-> <<>>]

\* what set_exif_date returns (NoData for None) and the kinds it logged
set_exif_date(image_data, date_str) ==
    IF image_data.format = "corrupt"
    THEN [data |-> NoData, logged |-> {"exif"}]
    ELSE IF image_data.format # "JPEG" /\ image_data.format # "truncated"
    THEN [data |-> NoData, logged |-> {}]
    ELSE LET dt == convert_date_format(date_str)
             dlog == IF dt.logged THEN {"date"} ELSE {}
         IN  IF image_data.format = "truncated"
             THEN [data |-> NoData, logged |-> dlog \cup {"exif"}]
             ELSE [data |-> [format |-> "JPEG", exif |-> dt.ret,
                             of |-> image_data.of],
                   logged |-> dlog]

----------------------------------------------------------------------------
(* The inputs of a run: dates, links and documents                         *)

MaxWorkers == 4

MaxLinks == 5

MaxDocs == 2

MaxFaults == 2

\* "<day> <month> <year><sep><time>"
RawDate(day, month, year, sep, time) ==
    day \o <<" ">> \o month \o <<" ">> \o year \o sep \o time

Time1000 == <<"1","0",":","0","0">>
Time905  == <<"9",":","0","5">>
Year2020 == <<"2","0","2","0">>

\* "1 yanv 2020 v 10:00"
DateJan == RawDate(<<"1">>, <<"#ya","#n","#v">>, Year2020, AtSep, Time1000)
\* "15 maya 2020 v 9:05"
DateMay == RawDate(<<"1","5">>, <<"#m","#a","#ya">>, Year2020, AtSep, Time905)
\* "3 xyz 2020 v 9:05": no such month
DateBadMonth == RawDate(<<"3">>, <<"x","y","z">>, Year2020, AtSep, Time905)
\* "3 yanv v 9:05": the year is missing
DateNoYear == <<"3">> \o <<" ">> \o <<"#ya","#n","#v">> \o AtSep \o Time905
\* "2020-01-03": no ' v ' at all
DateIso == <<"2","0","2","0","-","0","1","-","0","3">>

Body(format, path) == [format |-> format, exif |-> <<>>, of |-> path]

Url(path, format) == [path |-> path, body |-> Body(format, path)]

Link(path, format, date) == [url |-> Url(path, format), date |-> date]

LinkA == Link(<<"/","a",".","j","p","g">>, "JPEG", DateJan)
LinkB == Link(<<"/","b",".","P","N","G">>, "PNG", DateMay)
LinkC == Link(<<"/","c">>, "JPEG", DateBadMonth)
LinkD == Link(<<"/","d",".","j","p","e","g">>, "corrupt", DateIso)
LinkE == Link(<<"/","e",".","p","n","g">>, "JPEG", DateMay)
LinkF == Link(<<"/","f",".","j","p","g">>, "truncated", DateNoYear)

Encodings == <<"cp1251", "utf-8">>

\* A document: the encodings its bytes decode under, whether the markup
\* extraction returns (rather than raises), and the links extraction
\* yields from the decoded text.
Doc(name, decodes, parses, links) ==
    [name |-> name, decodes |-> decodes, parses |-> parses, links |-> links]

DocA == Doc("messages.html", {"cp1251"}, TRUE, <<LinkA, LinkB>>)
DocU == Doc("messages2.html", {"utf-8"}, TRUE, <<LinkC>>)
DocX == Doc("messages3.html", {}, TRUE, <<LinkD>>)
DocP == Doc("messages4.html", {"cp1251", "utf-8"}, FALSE, <<LinkD, LinkA>>)
DocM == Doc("messages5.html", {"cp1251"}, TRUE, <<LinkE, LinkF, LinkD>>)

DocSamples == {DocA, DocU, DocX, DocP}

LinkCycle == <<LinkA, LinkB, LinkC, LinkD, LinkE, LinkF>>

\* one document holding MaxLinks links
BigDoc ==
    Doc("messages6.html", {"cp1251"}, TRUE,
        [i \in 1..MaxLinks |-> LinkCycle[((i - 1) % Len(LinkCycle)) + 1]])

\* read_file_with_fallback: the first encoding that decodes, "" when the
\* loop ends and line 38 raises
read_file_with_fallback(doc) ==
    IF Encodings[1] \in doc.decodes THEN Encodings[1]
    ELSE IF Encodings[2] \in doc.decodes THEN Encodings[2]
    ELSE ""

\* an extraction that hands over the links found before it failed
ExtractDoc_Partial(doc) ==
    IF doc.decodes = {} THEN [raised |-> TRUE, links |-> <<>>]
    ELSE IF ~doc.parses THEN [raised |-> TRUE, links |-> <<Head(doc.links)>>]
    ELSE [raised |-> FALSE, links |-> doc.links]

\* the body of main's try, lines 155-156: the links the document adds to
\* all_links, or "raised"
ExtractDoc(doc) ==
    IF read_file_with_fallback(doc) = "" THEN [raised |-> TRUE, links |-> <<>>]
    ELSE IF ~doc.parses THEN [raised |-> TRUE, links |-> <<>>]
    ELSE [raised |-> FALSE, links |-> doc.links]

\* lists of at most MaxDocs distinct documents
DocLists ==
    { ds \in UNION { [1..n -> DocSamples] : n \in 0..MaxDocs } :
        \A i, j \in 1..Len(ds) : i # j => ds[i] # ds[j] }

OldFile == [format |-> "old", exif |-> <<>>, of |-> <<>>]
EmptyFile == [format |-> "empty", exif |-> <<>>, of |-> <<>>]

\* the links of a document list whose every document is read and parsed
RECURSIVE LinksOf(_)
LinksOf(ds) ==
    IF ds = <<>> THEN <<>> ELSE Head(ds).links \o LinksOf(Tail(ds))

\* the files a run over ds may find in dest_dir: nothing, or one file at a
\* path one of its first two tasks tests or writes
PreSets(ds) ==
    LET links == LinksOf(ds) IN
    {{}} \cup
    UNION { { {CheckPath(k, links[k].url, DestDir)},
              {FinalPath(k, links[k].url, links[k].date, DestDir)} } :
            k \in 1..(IF Len(links) < 2 THEN Len(links) ELSE 2) }

Scenario(ds, files, n) == [docs |-> ds, pre |-> files, faults |-> n]

\* runs over every short list of documents, good and bad
DocRuns == { Scenario(ds, {}, 0) : ds \in DocLists }

\* runs in which the environment injects up to MaxFaults faults and the
\* destination may hold a file already
FaultRuns ==
    UNION { { Scenario(ds, files, MaxFaults) : files \in PreSets(ds) } :
            ds \in { <<DocA>>, <<DocM>>, <<DocU, DocA>> } }

\* a run with more links than the pool has workers, one fault injected
PoolRuns == { Scenario(<<BigDoc>>, {}, 1) }

Scenarios == DocRuns \cup FaultRuns \cup PoolRuns

----------------------------------------------------------------------------
(* main and the pool                                                       *)

Entry(kind, item) == [kind |-> kind, item |-> item]

Init ==
    /\ \E sc \in Scenarios :
         docs = sc.docs /\ pre = sc.pre /\ faults = sc.faults
    /\ main_pc = "discover"
    /\ doc_i = 0
    /\ all_links = <<>>
    /\ tasks = <<>>
    /\ disk = [p \in pre |-> OldFile]
    /\ log = {}
    /\ status = "running"
    /\ banner = FALSE
    /\ arg = <<>>
    /\ res = <<>>

\* lines 145-150: no matching file ends the run with status 1
Discover ==
    /\ main_pc = "discover"
    /\ IF docs = <<>>
       THEN main_pc' = "exited" /\ status' = "1"
       ELSE main_pc' = "extract" /\ status' = status
    /\ UNCHANGED <<docs, pre, doc_i, all_links, tasks, disk, log, faults,
                   banner, arg, res>>

\* lines 153-158: one iteration of the extraction loop
ExtractNext ==
    /\ main_pc = "extract"
    /\ doc_i < Len(docs)
    /\ LET r == ExtractDoc(docs[doc_i + 1]) IN
         /\ all_links' = all_links \o r.links
         /\ log' = IF r.raised THEN log \cup {Entry("read", doc_i + 1)} ELSE log
    /\ doc_i' = doc_i + 1
    /\ UNCHANGED <<docs, pre, main_pc, tasks, disk, faults, status, banner,
                   arg, res>>

\* lines 160-162: the loop is over, the pool is created
BeginDownload ==
    /\ main_pc = "extract"
    /\ doc_i = Len(docs)
    /\ main_pc' = "submit"
    /\ UNCHANGED <<docs, pre, doc_i, all_links, tasks, disk, log, faults,
                   status, banner, arg, res>>

\* a coordinator that numbers the links from 0
NewTask_ZeroBased(i, link) ==
    [index |-> i, url |-> link.url, date_str |-> link.date,
     pc |-> "queued", filepath |-> <<>>, image_data |-> NoData,
     runs |-> 0, fetches |-> 0, outcome |-> "", raised |-> FALSE]

\* the future executor.submit creates for the i-th link (lines 164-165)
NewTask(i, link) ==
    [index |-> i + 1, url |-> link.url, date_str |-> link.date,
     pc |-> "queued", filepath |-> <<>>, image_data |-> NoData,
     runs |-> 0, fetches |-> 0, outcome |-> "", raised |-> FALSE]

\* lines 163-166: one executor.submit of the list comprehension
Submit ==
    /\ main_pc = "submit"
    /\ Len(tasks) < Len(all_links)
    /\ tasks' = Append(tasks, NewTask(Len(tasks), all_links[Len(tasks) + 1]))
    /\ UNCHANGED <<docs, pre, main_pc, doc_i, all_links, disk, log, faults,
                   status, banner, arg, res>>

\* line 167: every link is submitted, main waits in as_completed
BeginJoin ==
    /\ main_pc = "submit"
    /\ Len(tasks) = Len(all_links)
    /\ main_pc' = "join"
    /\ UNCHANGED <<docs, pre, doc_i, all_links, tasks, disk, log, faults,
                   status, banner, arg, res>>

Running == {"fetch", "open", "write"}

\* the tasks a worker thread is executing
InFlight == {k \in 1..Len(tasks) : tasks[k].pc \in Running}

\* a pool that starts a thread for every submitted task
WorkerAvailable_Unbounded == TRUE

\* a worker thread is idle or can still be created (max_workers, line 162)
WorkerAvailable == Cardinality(InFlight) < MaxWorkers

\* the work queue is first in, first out
HeadOfQueue(k) ==
    /\ tasks[k].pc = "queued"
    /\ \A j \in 1..(k - 1) : tasks[j].pc # "queued"

\* a handler that names the request errors only
Caught_RequestErrorsOnly(failure) == failure \in {"network", "status"}

\* except Exception (line 128) catches every failure of the body
Caught(failure) == TRUE

\* a task that goes back to its request after a failed one
Failed_Retry(t, failure) ==
    IF failure \in {"network", "status"}
    THEN [t EXCEPT !.pc = "fetch"]
    ELSE [t EXCEPT !.pc = "done", !.outcome = failure,
                   !.raised = ~Caught(failure)]

\* the end of a task whose body failed with `failure`: lines 128-129 log
\* it, or it escapes into the future
Failed(t, failure) ==
    [t EXCEPT !.pc = "done", !.outcome = failure,
              !.raised = ~Caught(failure)]

FailLog(t, failure) ==
    IF Caught(failure) THEN {Entry("download", t.index)} ELSE {}

\* lines 116-123 on the fetched bytes url.body: the bytes and the path of
\* the write, and what the stamping logged
Prepared(index, url, date_str, dest_dir) ==
    IF Extension(url) \in {ExtJpg, ExtJpeg}
    THEN LET updated == set_exif_date(url.body, date_str) IN
         [image_data |-> IF updated.data # NoData THEN updated.data ELSE url.body,
          filepath |-> CheckPath(index, url, dest_dir),
          logged |-> updated.logged]
    ELSE [image_data |-> url.body,
          filepath |-> FinalPath(index, url, date_str, dest_dir),
          logged |-> {}]

SampleLinks == { LinkCycle[i] : i \in 1..Len(LinkCycle) }

\* what download_image computes from its arguments alone, for every
\* (index, link) a run can submit; computed once and looked up by the
\* steps below
Computed ==
    [index \in 0..MaxLinks, link \in SampleLinks |->
        [check |-> CheckPath(index, link.url, DestDir),
         prepared |-> Prepared(index, link.url, link.date, DestDir)]]

Locals(t) == Computed[t.index, [url |-> t.url, date |-> t.date_str]]

\* lines 101-111: a worker takes the task, computes its path and tests it
Start(k) ==
    /\ k \in 1..Len(tasks)
    /\ HeadOfQueue(k)
    /\ WorkerAvailable
    /\ LET t == tasks[k]
           filepath == Locals(t).check
       IN  IF filepath \in DOMAIN disk
           THEN /\ tasks' = [tasks EXCEPT ![k] =
                      [t EXCEPT !.pc = "done", !.filepath = filepath,
                                !.runs = @ + 1, !.outcome = "exists"]]
                /\ log' = log \cup {Entry("exists", t.index)}
           ELSE /\ tasks' = [tasks EXCEPT ![k] =
                      [t EXCEPT !.pc = "fetch", !.filepath = filepath,
                                !.runs = @ + 1]]
                /\ log' = log
    /\ UNCHANGED <<docs, pre, main_pc, doc_i, all_links, disk, faults,
                   status, banner, arg, res>>

\* what the environment may answer to a request
Responses == {"ok"} \cup (IF faults > 0 THEN {"network", "status"} ELSE {})

\* lines 113-123: the one request of the task, and what follows it
Fetch(k) ==
    /\ k \in 1..Len(tasks)
    /\ tasks[k].pc = "fetch"
    /\ \E response \in Responses :
         LET t == [tasks[k] EXCEPT !.fetches = @ + 1] IN
         IF response = "ok"
         THEN LET p == Locals(t).prepared IN
              /\ tasks' = [tasks EXCEPT ![k] =
                    [t EXCEPT !.pc = "open", !.image_data = p.image_data,
                              !.filepath = p.filepath]]
              /\ log' = log \cup {Entry(kind, t.index) : kind \in p.logged}
              /\ faults' = faults
         ELSE /\ tasks' = [tasks EXCEPT ![k] = Failed(t, response)]
              /\ log' = log \cup FailLog(t, response)
              /\ faults' = faults - 1
    /\ UNCHANGED <<docs, pre, main_pc, doc_i, all_links, disk, status,
                   banner, arg, res>>

\* line 125: open(filepath, 'wb') creates or truncates the file, or fails
Open(k) ==
    /\ k \in 1..Len(tasks)
    /\ tasks[k].pc = "open"
    /\ \E ok \in (IF faults > 0 THEN BOOLEAN ELSE {TRUE}) :
         LET t == tasks[k] IN
         IF ok
         THEN /\ disk' = (t.filepath :> EmptyFile) @@ disk
              /\ tasks' = [tasks EXCEPT ![k] = [t EXCEPT !.pc = "write"]]
              /\ log' = log
              /\ faults' = faults
         ELSE /\ disk' = disk
              /\ tasks' = [tasks EXCEPT ![k] = Failed(t, "open")]
              /\ log' = log \cup FailLog(t, "open")
              /\ faults' = faults - 1
    /\ UNCHANGED <<docs, pre, main_pc, doc_i, all_links, status, banner,
                   arg, res>>

\* line 126: f.write(image_data) and the close, or a failure that leaves
\* the file as it was opened
Write(k) ==
    /\ k \in 1..Len(tasks)
    /\ tasks[k].pc = "write"
    /\ \E ok \in (IF faults > 0 THEN BOOLEAN ELSE {TRUE}) :
         LET t == tasks[k] IN
         IF ok
         THEN /\ disk' = (t.filepath :> t.image_data) @@ disk
              /\ tasks' = [tasks EXCEPT ![k] =
                    [t EXCEPT !.pc = "done", !.outcome = "written"]]
              /\ log' = log
              /\ faults' = faults
         ELSE /\ disk' = disk
              /\ tasks' = [tasks EXCEPT ![k] = Failed(t, "write")]
              /\ log' = log \cup FailLog(t, "write")
              /\ faults' = faults - 1
    /\ UNCHANGED <<docs, pre, main_pc, doc_i, all_links, status, banner,
                   arg, res>>

AllDone == \A k \in 1..Len(tasks) : tasks[k].pc = "done"

\* a coordinator that does not wait for its futures
JoinReady_NoWait == TRUE

\* what main waits for before it leaves the with block (lines 167-168 and
\* the executor's shutdown(wait=True))
JoinReady == AllDone

\* lines 167-170: as_completed and future.result() over every future, the
\* pool's shutdown, the banner. main does nothing else between the first
\* result and the last, so the loop is one step, taken when the last
\* future is done; a future holding an exception makes result() raise,
\* and main ends without the banner, with status 1.
JoinAll ==
    /\ main_pc = "join"
    /\ JoinReady
    /\ main_pc' = "done"
    /\ IF \E k \in 1..Len(tasks) : tasks[k].raised
       THEN status' = "1" /\ banner' = FALSE
       ELSE status' = "0" /\ banner' = TRUE
    /\ UNCHANGED <<docs, pre, doc_i, all_links, tasks, disk, log, faults,
                   arg, res>>

Next ==
    \/ Discover
    \/ ExtractNext
    \/ BeginDownload
    \/ Submit
    \/ BeginJoin
    \/ \E k \in 1..MaxLinks : Start(k)
    \/ \E k \in 1..MaxLinks : Fetch(k)
    \/ \E k \in 1..MaxLinks : Open(k)
    \/ \E k \in 1..MaxLinks : Write(k)
    \/ JoinAll

Spec == Init /\ [][Next]_vars

\* worker threads and main are scheduled by the operating system: a step
\* that stays possible is eventually taken
FairSpec == Spec /\ WF_vars(Next)

----------------------------------------------------------------------------
(* convert_date_format on its own: one call on each sample date            *)

Days == { <<"1">>, <<"0","7">>, <<"1","5">>, <<"x","x">>, <<"-","1">>, <<>> }

MonthNames ==
    MonthKeys \cup { <<"#M","#a","#ya">>, <<"x","y","z">>, <<"#m","#a">>, <<>> }

Years == { Year2020, <<"2","0","y","0">>, <<>> }

Seps == { AtSep, <<" ">>, AtSep \o <<"1">> \o AtSep }

Times == { Time1000, <<"9",":","0","5",":","0","0">> }

DateArgs ==
    [day : Days, month : MonthNames, year : Years, sep : Seps, time : Times]

Raw(a) == RawDate(a.day, a.month, a.year, a.sep, a.time)

Idle ==
    /\ docs = <<>>
    /\ pre = {}
    /\ doc_i = 0
    /\ all_links = <<>>
    /\ tasks = <<>>
    /\ disk = << >>
    /\ log = {}
    /\ faults = 0
    /\ status = "running"
    /\ banner = FALSE

DateInit ==
    /\ Idle
    /\ main_pc = "convert_date_format"
    /\ arg \in DateArgs
    /\ res = <<>>

\* one call convert_date_format(Raw(arg)); what it logs goes to the log
ConvertDate ==
    /\ main_pc = "convert_date_format"
    /\ res = <<>>
    /\ LET r == convert_date_format(Raw(arg)) IN
         /\ res' = <<r.ret>>
         /\ log' = IF r.logged THEN {Entry("date", Raw(arg))} ELSE log
    /\ UNCHANGED <<docs, pre, main_pc, doc_i, all_links, tasks, disk, faults,
                   status, banner, arg>>

DateNext == ConvertDate

DateSpec == DateInit /\ [][DateNext]_vars

----------------------------------------------------------------------------
(* The names of two tasks of one run: the paths download_image writes for  *)
(* two links at two different sequence indices                             *)

IndexSamples == {1, 2, 10, 1000, 9999, 10000, 10001, 20001, 100000}

\* raw dates as the extractor may hand them over, parsable or not
NameDates ==
    { DateJan, DateMay, DateIso, <<>>, <<"0">>, <<"1","_">>, <<"0"," ","1">> }

NameUrls ==
    { Url(<<"/","a",".","j","p","g">>, "JPEG"),
      Url(<<"/","b",".","P","N","G">>, "PNG"),
      Url(<<"/","c">>, "JPEG"),
      Url(<<"/","d",".","j","p","e","g">>, "JPEG"),
      Url(<<"/","x",".","y","/","e",".","p","n","g">>, "PNG") }

NameTasks == [index : IndexSamples, url : NameUrls, date : NameDates]

NameInit ==
    /\ Idle
    /\ main_pc = "names"
    /\ arg \in { pair \in [1..2 -> NameTasks] : pair[1].index < pair[2].index }
    /\ res = <<>>

\* the final path of each of the two tasks (lines 102-123)
NamePaths ==
    /\ main_pc = "names"
    /\ res = <<>>
    /\ res' = [i \in 1..2 |->
                 FinalPath(arg[i].index, arg[i].url, arg[i].date, DestDir)]
    /\ UNCHANGED <<docs, pre, main_pc, doc_i, all_links, tasks, disk, log,
                   faults, status, banner, arg>>

NameNext == NamePaths

NameSpec == NameInit /\ [][NameNext]_vars

----------------------------------------------------------------------------
(* Properties                                                              *)

Tasks == 1..Len(tasks)

\* the path task k tests (line 108) and the path it writes (lines 108-123)
TestedPath(k) == CheckPath(k, all_links[k].url, DestDir)
WrittenPath(k) == FinalPath(k, all_links[k].url, all_links[k].date, DestDir)

\* C1: a task whose written path NNNN.ext or NNNN_<sanitized-date>.ext
\* holds a file before the run performs no write, and the file stays as it
\* was, for every extension and interleaving.
C1_PreexistingNeverOverwritten ==
    \A k \in Tasks :
        WrittenPath(k) \in pre =>
            /\ WrittenPath(k) \in DOMAIN disk
            /\ disk[WrittenPath(k)] = OldFile
            /\ tasks[k].outcome \notin {"written", "write"}

DigitChars == {"0", "1", "2", "3", "4", "5", "6", "7", "8", "9"}

RECURSIVE LeadingDigits(_)
LeadingDigits(s) ==
    IF s # <<>> /\ Head(s) \in DigitChars
    THEN <<Head(s)>> \o LeadingDigits(Tail(s))
    ELSE <<>>

RECURSIVE NumberOf(_)
\* the number a text of digits denotes
NumberOf(ds) ==
    IF ds = <<>> THEN 0
    ELSE 10 * NumberOf(SubSeq(ds, 1, Len(ds) - 1))
         + (CHOOSE d \in 0..9 : DigitChar(d) = ds[Len(ds)])

\* the digits a path in dest_dir starts its file name with
NameDigits(path) == LeadingDigits(SubSeq(path, Len(DestDir) + 2, Len(path)))

\* C2: the k-th link of all_links becomes the task with index k, and the
\* file name a task computes and writes starts with the zero-padded decimal
\* rendering of k (four digits up to 9999), whatever the order in which
\* the tasks complete; every file a run adds holds the bytes of the link
\* its name numbers.
C2_NamesCarryLinkIndex ==
    /\ Len(tasks) <= Len(all_links)
    /\ \A k \in Tasks :
        /\ tasks[k].index = k
        /\ tasks[k].url = all_links[k].url
        /\ tasks[k].date_str = all_links[k].date
        /\ tasks[k].filepath # <<>> =>
             /\ NumberOf(NameDigits(tasks[k].filepath)) = k
             /\ Len(NameDigits(tasks[k].filepath)) >= 4
             /\ k <= 9999 => Len(NameDigits(tasks[k].filepath)) = 4
    /\ \A p \in (DOMAIN disk) \ pre :
        \E k \in Tasks :
            /\ NumberOf(NameDigits(p)) = k
            /\ tasks[k].filepath = p
            /\ disk[p] = EmptyFile \/ disk[p].of = all_links[k].url.path

\* the second link's file is complete while the first link's task is
\* still running
C2_Witness ==
    /\ Len(tasks) >= 2
    /\ tasks[1].pc \in Running
    /\ tasks[2].outcome = "written"
    /\ NumberOf(NameDigits(tasks[2].filepath)) = 2
    /\ tasks[2].filepath \in DOMAIN disk

\* C3: at most 4 download_image tasks are started and not yet finished.
C3_AtMostFourInFlight == Cardinality(InFlight) <= 4

\* four tasks are running and a fifth waits in the queue
C3_Witness ==
    /\ Cardinality(InFlight) = 4
    /\ \E k \in Tasks : tasks[k].pc = "queued"

FailureOutcomes == {"network", "status", "open", "write"}

\* C4: main prints the banner and returns only after every submitted task
\* has completed, by writing its file or by a logged failure, each task
\* having run exactly once; and under fair scheduling the run eventually
\* completes.
C4_ReturnsAfterEveryTask ==
    /\ [](main_pc = "done" =>
            /\ Len(tasks) = Len(all_links)
            /\ \A k \in Tasks :
                 /\ tasks[k].pc = "done"
                 /\ tasks[k].runs = 1
                 /\ \/ tasks[k].outcome = "written"
                    \/ /\ tasks[k].outcome = "exists"
                       /\ Entry("exists", k) \in log
                    \/ /\ tasks[k].outcome \in FailureOutcomes
                       /\ Entry("download", k) \in log)
    /\ <>(main_pc \in {"done", "exited"})

\* the run has ended with the banner, one task having written its file and
\* another having failed
C4_Witness ==
    /\ main_pc = "done"
    /\ banner
    /\ \E j, k \in Tasks :
         /\ tasks[j].outcome = "written"
         /\ tasks[k].outcome \in FailureOutcomes

\* the bytes task k writes when nothing fails: the fetched content, with
\* the normalized date stamped into it when the extension is a JPEG one
\* and the content is JPEG
ExpectedBytes(k) ==
    LET link == all_links[k] IN
    IF Extension(link.url) \in {ExtJpg, ExtJpeg} /\ link.url.body.format = "JPEG"
    THEN [format |-> "JPEG", exif |-> convert_date_format(link.date).ret,
          of |-> link.url.path]
    ELSE link.url.body

\* C5: no failure leaves download_image, and a task's result depends on
\* its own failure only: when the run ends, it ends normally, every task
\* that did not fail itself has written exactly its own file, whatever
\* failed in its siblings, and the run added no other file.
C5_FailuresStayInTheirTask ==
    /\ \A k \in Tasks : ~tasks[k].raised
    /\ main_pc = "done" =>
         /\ status = "0"
         /\ banner
         /\ \A k \in 1..Len(all_links) :
              /\ tasks[k].pc = "done"
              /\ \/ tasks[k].outcome \in FailureOutcomes \cup {"exists"}
                 \/ /\ tasks[k].outcome = "written"
                    /\ WrittenPath(k) \in DOMAIN disk
                    /\ disk[WrittenPath(k)] = ExpectedBytes(k)
         /\ DOMAIN disk =
              pre \cup { WrittenPath(k) : k \in
                           { j \in Tasks : tasks[j].outcome \in {"written", "write"} } }

\* a run has ended in which two tasks failed and a third wrote its file
C5_Witness ==
    /\ main_pc = "done"
    /\ status = "0"
    /\ \E i, j, k \in Tasks :
         /\ i # j
         /\ tasks[i].outcome \in FailureOutcomes
         /\ tasks[j].outcome \in FailureOutcomes
         /\ tasks[k].outcome = "written"
         /\ disk[WrittenPath(k)] = ExpectedBytes(k)

\* C6: a task whose request ends in a network failure (a timeout
\* included) or a non-success status logs it, writes no file and leaves
\* dest_dir as it was; no task sends a second request.
C6_FailedFetchWritesNothing ==
    \A k \in Tasks :
        /\ tasks[k].fetches <= 1
        /\ tasks[k].outcome \in {"network", "status"} =>
             /\ tasks[k].pc = "done"
             /\ tasks[k].fetches = 1
             /\ Entry("download", k) \in log
             /\ TestedPath(k) \notin DOMAIN disk
             /\ WrittenPath(k) \in DOMAIN disk =>
                  WrittenPath(k) \in pre /\ disk[WrittenPath(k)] = OldFile

\* the run has ended, one request having failed on the network and one
\* with a bad status
C6_Witness ==
    /\ main_pc = "done"
    /\ \E j, k \in Tasks :
         /\ tasks[j].outcome = "network"
         /\ tasks[k].outcome = "status"
         /\ WrittenPath(j) \notin DOMAIN disk

\* C7: two tasks with different sequence indices never write the same
\* path, whatever their extensions and raw dates, and also for indices
\* above 9999.
C7_DistinctPaths == res # <<>> => res[1] # res[2]

\* two .png tasks with the same raw date, one index below 10000 and one
\* above it with the same last four digits, have their paths computed
C7_Witness ==
    /\ res # <<>>
    /\ arg[1].index = 1
    /\ arg[2].index = 10001
    /\ arg[1].url = arg[2].url
    /\ arg[1].date = arg[2].date
    /\ Extension(arg[1].url) = ExtPng

IsDigits(s) == s # <<>> /\ \A i \in 1..Len(s) : s[i] \in DigitChars

\* "<day> <month-abbrev> <year> v <time>": one or two day digits, one of
\* the known abbreviations, a year in digits, the separator, a clock time
MatchesGrammar(a) ==
    /\ IsDigits(a.day) /\ Len(a.day) <= 2
    /\ Lower(a.month) \in MonthKeys
    /\ IsDigits(a.year)
    /\ a.sep = AtSep
    /\ a.time # <<>>
    /\ \A i \in 1..Len(a.time) : a.time[i] \in DigitChars \cup {":"}

\* "year:month:day time" with the day on two digits
ExpectedTimestamp(a) ==
    a.year \o <<":">> \o MonthNumber(Lower(a.month)) \o <<":">>
    \o (IF Len(a.day) = 1 THEN <<"0">> \o a.day ELSE a.day)
    \o <<" ">> \o a.time

\* C8: convert_date_format returns "year:month:day time" (day on two
\* digits, month mapped, both May abbreviations to 05) for every raw date
\* that matches the grammar, and exactly the sentinel for every raw date
\* that violates it: wrong token count, unknown month, missing parts,
\* malformed numeric parts.
C8_NormalizeOrSentinel ==
    res # <<>> =>
        res[1] = IF MatchesGrammar(arg) THEN ExpectedTimestamp(arg) ELSE Sentinel

GoodDoc(doc) == doc.decodes \cap {"cp1251", "utf-8"} # {} /\ doc.parses

RECURSIVE GoodLinks(_)
\* the links of the documents of ds that decode and parse, in order
GoodLinks(ds) ==
    IF ds = <<>> THEN <<>>
    ELSE (IF GoodDoc(Head(ds)) THEN Head(ds).links ELSE <<>>)
         \o GoodLinks(Tail(ds))

\* C9: a document that cannot be decoded or whose extraction raises is
\* logged and adds no link at all; the other documents' links are all
\* there, in order; the downloads start and the run ends with status 0.
C9_BadDocumentSkipped ==
    /\ \A i \in 1..doc_i : Entry("read", i) \in log <=> ~GoodDoc(docs[i])
    /\ all_links = GoodLinks(SubSeq(docs, 1, doc_i))
    /\ docs # <<>> => status \in {"running", "0"}
    /\ main_pc = "done" =>
         /\ status = "0"
         /\ Len(tasks) = Len(GoodLinks(docs))
         /\ \A k \in Tasks : tasks[k].runs = 1

\* a run has ended with status 0 in which a document that failed with
\* links in it came before a document whose links were downloaded
C9_Witness ==
    /\ main_pc = "done"
    /\ status = "0"
    /\ \E i, j \in 1..Len(docs) :
         /\ i < j
         /\ ~GoodDoc(docs[i]) /\ docs[i].links # <<>>
         /\ docs[i].decodes # {}
         /\ GoodDoc(docs[j])
         /\ Entry("read", i) \in log
    /\ \E k \in Tasks : tasks[k].outcome = "written"

TaskKinds == {"date", "exif", "exists", "download"}

\* the timestamp stamped into task k's image is the sentinel: its raw date
\* could not be parsed
DateDefaulted(k) == tasks[k].image_data.exif = Sentinel

\* the stamping of task k's image failed in decode or encode
StampFailed(k) ==
    /\ tasks[k].pc \in {"open", "write"} \/ tasks[k].outcome \in {"written", "open", "write"}
    /\ Extension(tasks[k].url) \in {ExtJpg, ExtJpeg}
    /\ tasks[k].url.body.format \in {"corrupt", "truncated"}

\* C10: every logged kind of failure appends an entry for its item: an
\* unparseable date, a network failure, a bad status, a pre-existing
\* file, a stamping failure, a write failure; and a run without any
\* failure adds nothing to the log.
C10_EveryFailureLogged ==
    /\ \A k \in Tasks :
         /\ DateDefaulted(k) =>
              \E e \in log : e.item = k /\ e.kind \in TaskKinds
         /\ tasks[k].outcome \in FailureOutcomes => Entry("download", k) \in log
         /\ tasks[k].outcome = "exists" => Entry("exists", k) \in log
         /\ StampFailed(k) => Entry("exif", k) \in log
    /\ ( /\ main_pc = "done"
         /\ \A i \in 1..Len(docs) : GoodDoc(docs[i])
         /\ \A k \in Tasks :
              tasks[k].outcome = "written" /\ ~DateDefaulted(k) /\ ~StampFailed(k) )
       => log = {}

====
